---- MODULE Spec2Model ----
(***************************************************************************)
(* A model of zMayaTools' controller editor (controller_editor.py) and of  *)
(* the block helpers of maya_helpers.py.                                   *)
(*                                                                         *)
(* The scene is modelled by the connections the code reads and writes:     *)
(*   child.parent  -> parent.children[idx]     (children)                  *)
(*   parent.prepopulate -> child.prepopulate   (prepopulate)               *)
(*   object.message -> controller.controllerObject (controllerObject)      *)
(* A destination plug holds at most one incoming connection, so every      *)
(* array element and every prepopulate/controllerObject plug is a single   *)
(* value, None when nothing is connected.  An element of the children      *)
(* array that was disconnected stays an (unconnected) element of the       *)
(* array: that is the gap controller_editor.py:419-421 describes.          *)
(***************************************************************************)
EXTENDS Integers, Sequences, FiniteSets, TLC

\* Bounds of the model.
MaxControllers == 3
NumObjects == 1
MaxNodes == 2
MaxDepth == 2
MaxRestoresDepth == 1
MaxItems == 2
NumValues == 2
NumOptionVars == 2
MaxTime == 3
MaxConnections == 2
MaxWatched == 2
MaxNotifications == 3

None == 0
Controllers == 1..MaxControllers
Objects == 1..NumObjects
\* The elements of a children array: a child list is never longer than the
\* number of controllers as long as no controller is connected twice.
Indices == 0..(MaxControllers - 1)
Positions == {"OnItem", "AboveItem", "BelowItem", "OnViewport"}

VARIABLES
  children,          \* children[p][i]: the controller connected to p.children[i], or None
  prepopulate,       \* prepopulate[c]: the controller connected to c.prepopulate, or None
  exists,            \* the controller nodes of the scene
  controllerObject,  \* controllerObject[c]: the object connected to c.controllerObject, or None
  undoChunks,        \* number of open undo chunks
  last,              \* the handler that ran last and its arguments; "idle" between handlers
  undoState,         \* pm.undoInfo(q=True, state=True): undo recording is enabled
  autoKeyframe,      \* pm.autoKeyframe(q=True, state=True)
  attr,              \* the value of the scene attribute that SetAndRestore items set
  stack,             \* the with blocks being run, the innermost last
  exc,               \* an exception is propagating out of the blocks
  popped,            \* the block that was left last
  optionVar,         \* pm.optionVar: what the host stores under each name
  options,           \* the OptionVar objects: var_type and default of each name
  optLast,           \* the OptionVar operation that ran last, its argument and result
  playing_back_job,  \* TimeChangeListener.playing_back_job: a script job, or None
  playback_callback_id,  \* TimeChangeListener.playback_callback_id: a callback, or None
  pause_during_playback, \* TimeChangeListener._pause_during_playback
  playing,           \* pm.play(q=True, state=True)
  time,              \* the scene time
  jobs,              \* the playingBack script jobs the host holds
  callbacks,         \* the timeChanged callbacks the host holds
  time_seen,             \* the time the user callback last saw, or None
  timeLast,          \* the TimeChangeListener operation or event that ran last
  currently_refreshing,  \* ControllerEditor.currently_refreshing: populate_tree is running
  items,             \* the items of the tree widget, in the order they were created
  seen_nodes,        \* populate_tree's seen_nodes
  frames,            \* the calls of add_controllers_recursively being run, the innermost last
  roots,             \* the roots populate_tree has still to add
  warnings,          \* the controllers a cycle warning was logged for
  registered,        \* ControllerListener.registered
  callback_ids,      \* ControllerListener.callback_ids: the host callbacks it added
  queue,             \* the functions run_async_once has queued, the first queued first
  shown,             \* ControllerEditor.shown
  notified,          \* the change notifications received since the change callback ran
  listLast           \* the listener event that ran last

sceneVars == <<children, prepopulate, exists, controllerObject, undoChunks, last>>
blockVars == <<undoState, autoKeyframe, attr, stack, exc, popped>>
prefVars == <<optionVar, options, optLast>>
timeVars == <<playing_back_job, playback_callback_id, pause_during_playback,
              playing, time, jobs, callbacks, time_seen, timeLast>>
treeVars == <<currently_refreshing, items, seen_nodes, frames, roots, warnings>>
listenerVars == <<registered, callback_ids, queue, shown, notified, listLast>>
restVars == <<prefVars, timeVars, treeVars, listenerVars>>
vars == <<sceneVars, blockVars, restVars>>

------------------------------------------------------------------------------
\* Python list helpers.

RECURSIVE list_remove(_, _)
\* list.remove(x): drops the first occurrence of x.
list_remove(list, x) ==
  IF list = <<>> THEN <<>>
  ELSE IF Head(list) = x THEN Tail(list)
  ELSE <<Head(list)>> \o list_remove(Tail(list), x)

RECURSIVE list_index(_, _)
\* list.index(x), 0-based; x is in the list.
list_index(list, x) ==
  IF Head(list) = x THEN 0 ELSE 1 + list_index(Tail(list), x)

list_contains(list, x) == \E k \in 1..Len(list) : list[k] = x

\* list[idx:idx] = [x]
list_insert(list, idx, x) ==
  SubSeq(list, 1, idx) \o <<x>> \o SubSeq(list, idx + 1, Len(list))

RECURSIVE SetToSeq(_)
\* The elements of a set of numbers in increasing order.
SetToSeq(S) ==
  IF S = {} THEN <<>>
  ELSE LET m == CHOOSE x \in S : \A y \in S : x <= y
       IN <<m>> \o SetToSeq(S \ {m})

------------------------------------------------------------------------------
\* Connection queries.

NoPlug == <<None, 0>>

\* The children[idx] plugs that c.parent is connected to.
parent_plugs(ch, c) ==
  {pl \in Controllers \X Indices : ch[pl[1]][pl[2]] = c}

\* get_controller_parent(controller, get_plug=True): connections[0], or None.
\* The editor keeps c.parent connected to at most one element; were there
\* several, the first in (node, index) order stands for connections[0].
get_controller_parent_plug(ch, c) ==
  IF c = None \/ parent_plugs(ch, c) = {} THEN NoPlug
  ELSE CHOOSE pl \in parent_plugs(ch, c) :
         \A q \in parent_plugs(ch, c) :
           pl[1] < q[1] \/ (pl[1] = q[1] /\ pl[2] <= q[2])

\* get_controller_parent(controller): the node of that plug.
get_controller_parent(ch, c) == get_controller_parent_plug(ch, c)[1]

RECURSIVE children_from(_, _)
children_from(arr, i) ==
  IF i \notin Indices THEN <<>>
  ELSE (IF arr[i] = None THEN <<>> ELSE <<arr[i]>>) \o children_from(arr, i + 1)

\* get_controller_children(parent): the connected children in index order.
get_controller_children(ch, parent) == children_from(ch[parent], 0)

\* The effect of disconnect_from_parent=True: every element is disconnected.
disconnect_children(ch, parent) ==
  [ch EXCEPT ![parent] = [i \in Indices |-> None]]

\* assign_controller_children: child.parent.connect(parent.children[idx]).
assign_controller_children(ch, parent, list) ==
  [ch EXCEPT ![parent] =
     [i \in Indices |-> IF i < Len(list) THEN list[i + 1] ELSE @[i]]]

------------------------------------------------------------------------------
\* maya_helpers.undo(): the chunk is opened on entry and closed in the
\* finally clause, whether or not the block raised.

undo_enter(s) == [s EXCEPT !.undoChunks = @ + 1]

undo_exit_unless_raised(s) ==
  IF s.raised THEN s ELSE [s EXCEPT !.undoChunks = @ - 1]

undo_exit(s) == [s EXCEPT !.undoChunks = @ - 1]

------------------------------------------------------------------------------
\* set_controller_parent

\* Lines 123-131 disconnecting only the controller's own element.
unparent_leaving_gap(s, controller, old_parent) ==
  [s EXCEPT
     !.prepopulate[controller] = IF @ = old_parent THEN None ELSE @,
     !.children[old_parent] =
        [i \in Indices |-> IF @[i] = controller THEN None ELSE @[i]]]

\* Lines 123-131: unparent the controller from its old parent.
unparent(s, controller, old_parent) ==
  LET all_children == get_controller_children(s.children, old_parent)
      disconnected == disconnect_children(s.children, old_parent)
  IN [s EXCEPT
        !.prepopulate[controller] = IF @ = old_parent THEN None ELSE @,
        !.children = assign_controller_children(
                       disconnected, old_parent, list_remove(all_children, controller))]

\* Lines 145-149 with the new child first whatever `after` is.
insert_position_first(all_children, after) == 0

\* Lines 145-149: where the new child goes in the parent's list.
insert_position(all_children, after) ==
  IF after = None \/ ~list_contains(all_children, after)
  THEN 0
  ELSE list_index(all_children, after) + 1

\* Lines 137-152: connect the controller under its new parent.
insert_child(s, controller, parent, after) ==
  LET all_children == get_controller_children(s.children, parent)
      disconnected == disconnect_children(s.children, parent)
      idx == insert_position(all_children, after)
  IN [s EXCEPT
        !.prepopulate[controller] = parent,
        !.children = assign_controller_children(
                       disconnected, parent, list_insert(all_children, idx, controller))]

\* Lines 119-152 without the unparenting of lines 123-131.
set_controller_parent_keeping_old(s, controller, parent, after) ==
  IF parent = None THEN s ELSE insert_child(s, controller, parent, after)

\* Lines 119-152 with the test of line 134 made before the unparenting.
set_controller_parent_returning_early(s, controller, parent, after) ==
  IF parent = None THEN s
  ELSE LET old_parent == get_controller_parent(s.children, controller)
           s1 == IF old_parent # None THEN unparent(s, controller, old_parent) ELSE s
       IN insert_child(s1, controller, parent, after)

set_controller_parent_body(s, controller, parent, after) ==
  LET old_parent == get_controller_parent(s.children, controller)
  IN IF old_parent = None /\ parent = None THEN s
     ELSE LET s1 == IF old_parent # None THEN unparent(s, controller, old_parent) ELSE s
          IN IF parent = None THEN s1
             ELSE insert_child(s1, controller, parent, after)

set_controller_parent(s, controller, parent, after) ==
  undo_exit(set_controller_parent_body(undo_enter(s), controller, parent, after))

------------------------------------------------------------------------------
\* ControllerEditor.dragged_controller

\* An attribute access on None raises AttributeError.
raise(s) == [s EXCEPT !.raised = TRUE]

dragged_below(s, source, target) ==
  IF target = None THEN raise(s)
  ELSE IF Len(get_controller_children(s.children, target)) > 0
  THEN set_controller_parent(s, source, target, None)
  ELSE LET target_parent == get_controller_parent(s.children, target)
       IN IF target_parent = None THEN s
          ELSE set_controller_parent(s, source, target_parent, target)

dragged_above(s, source, target) ==
  IF target = None THEN raise(s)
  ELSE LET target_parent == get_controller_parent(s.children, target)
       IN IF target_parent = None THEN s
          ELSE LET chs == get_controller_children(s.children, target_parent)
                   target_position == list_index(chs, target)
                   after_node == IF target_position = 0 THEN None
                                 ELSE chs[target_position]
               IN set_controller_parent(s, source, target_parent, after_node)

dragged_controller(s, source, target, indicator_position) ==
  IF indicator_position = "OnViewport" THEN set_controller_parent(s, source, None, None)
  ELSE IF indicator_position = "OnItem" THEN set_controller_parent(s, source, target, None)
  ELSE IF indicator_position = "BelowItem" THEN dragged_below(s, source, target)
  ELSE dragged_above(s, source, target)

------------------------------------------------------------------------------
\* _remove_gaps_in_child_list and remove_gaps_in_all_controllers

\* Lines 77-95 without the disconnecting loop of lines 90-92.
remove_gaps_without_disconnecting(s, controller) ==
  LET connections == children_from(s.children[controller], 0)
      any_gaps_seen == \E i \in Indices : s.children[controller][i] = None
  IN IF ~any_gaps_seen THEN s
     ELSE [s EXCEPT !.children =
             assign_controller_children(s.children, controller, connections)]

remove_gaps_in_child_list(s, controller) ==
  LET connections == children_from(s.children[controller], 0)
      any_gaps_seen == \E i \in Indices : s.children[controller][i] = None
  IN IF ~any_gaps_seen THEN s
     ELSE [s EXCEPT !.children =
             assign_controller_children(
               disconnect_children(s.children, controller), controller, connections)]

RECURSIVE remove_gaps_in_controllers(_, _, _)
\* The loop of remove_gaps_in_all_controllers over pm.ls(type='controller');
\* referenced: the controllers referenceQuery reports as referenced.
remove_gaps_in_controllers(s, todo, referenced) ==
  IF todo = {} THEN s
  ELSE LET controller == CHOOSE c \in todo : \A d \in todo : c <= d
           s1 == IF controller \in referenced THEN s
                 ELSE remove_gaps_in_child_list(s, controller)
       IN remove_gaps_in_controllers(s1, todo \ {controller}, referenced)

remove_gaps_in_all_controllers(s, referenced) ==
  remove_gaps_in_controllers(s, s.exists, referenced)

------------------------------------------------------------------------------
\* ControllerEditor.create_controller_for_objects and dragged_from_maya

\* get_controller_for_object(node): connections[0], or None.
get_controller_for_object(s, node) ==
  LET connections == {c \in s.exists : s.controllerObject[c] = node}
  IN IF connections = {} THEN None
     ELSE CHOOSE c \in connections : \A d \in connections : c <= d

\* pm.createNode('controller'), connected to node unless node is None.
create_node(s, node) ==
  LET controller == CHOOSE c \in Controllers \ s.exists :
                      \A d \in Controllers \ s.exists : c <= d
  IN [s EXCEPT !.exists = @ \cup {controller},
               !.controllerObject[controller] = node]

RECURSIVE create_controllers_unless_had(_, _, _)
\* The loop of lines 379-396 skipping the nodes that had a controller when
\* the call began.
create_controllers_unless_had(s, nodes, had) ==
  IF nodes = <<>> THEN s
  ELSE LET node == Head(nodes)
           s1 == IF node # None /\ node \in had THEN s ELSE create_node(s, node)
       IN create_controllers_unless_had(s1, Tail(nodes), had)

\* create_controller_for_objects looking for existing controllers once,
\* before the loop.
create_controller_for_objects_once(s, nodes) ==
  create_controllers_unless_had(
    s, nodes, {o \in Objects : get_controller_for_object(s, o) # None})

RECURSIVE create_controller_for_objects(_, _)
\* The loop of lines 379-396: a node that has a controller gets no other.
\* Lines 375 and 398-406 (the selection, the refresh of the tree) make and
\* break no connection.
create_controller_for_objects(s, nodes) ==
  IF nodes = <<>> THEN s
  ELSE LET node == Head(nodes)
           existing_controller ==
             IF node = None THEN None ELSE get_controller_for_object(s, node)
           s1 == IF existing_controller # None THEN s ELSE create_node(s, node)
       IN create_controller_for_objects(s1, Tail(nodes))

RECURSIVE drag_nodes(_, _, _, _)
\* The loop of lines 355-361; an exception ends it.
drag_nodes(s, nodes, target, indicator_position) ==
  IF nodes = <<>> \/ s.raised THEN s
  ELSE LET controller == get_controller_for_object(s, Head(nodes))
           s1 == IF controller = None THEN s
                 ELSE dragged_controller(s, controller, target, indicator_position)
       IN drag_nodes(s1, Tail(nodes), target, indicator_position)

dragged_from_maya(s, nodes, target, indicator_position) ==
  undo_exit(drag_nodes(create_controller_for_objects(undo_enter(s), nodes),
                       nodes, target, indicator_position))

\* create_controller_for_selected_object with the transforms `nodes` selected.
create_controller_for_selected_object(s, nodes) ==
  IF nodes = <<>> THEN s
  ELSE undo_exit(create_controller_for_objects(undo_enter(s), nodes))

create_controller_group(s) ==
  undo_exit(create_controller_for_objects(undo_enter(s), <<None>>))

------------------------------------------------------------------------------
\* maya_helpers.OptionVar and OptionVars.
\*
\* A Python value is known by its class and its content: a bool by 0 or 1, an
\* int by itself, a float by the number of halves it holds (3 is 1.5), a
\* string by a number (0 is the empty string), the list the host returns for
\* an array option var by 0.

Types == {"int", "float", "string", "bool"}

PyValue(cls, v) == [cls |-> cls, v |-> v]

PyBools == {PyValue("bool", n) : n \in {0, 1}}
PyInts == {PyValue("int", n) : n \in {0, 1, 2}}
PyFloats == {PyValue("float", n) : n \in {0, 1, 2, 4}}
PyStrings == {PyValue(cls, n) : cls \in {"str", "unicode"}, n \in {0, 1}}
PyValues == PyBools \cup PyInts \cup PyFloats \cup PyStrings

NumericClasses == {"bool", "int", "float"}
StringClasses == {"str", "unicode"}

\* The number of halves in a number.
halves(value) == IF value.cls = "float" THEN value.v ELSE 2 * value.v

\* Python's ==: numbers by value whatever their class, strings by content,
\* and a list equals neither.
py_eq(a, b) ==
  IF a.cls \in NumericClasses /\ b.cls \in NumericClasses THEN halves(a) = halves(b)
  ELSE IF a.cls \in StringClasses /\ b.cls \in StringClasses THEN a.v = b.v
  ELSE a = b

\* var_type.expected_type of _types, with the subclasses isinstance() accepts:
\* bool is a subclass of int, str and unicode are subclasses of basestring.
expected_type(var_type) ==
  IF var_type = "int" THEN {"int", "bool"}
  ELSE IF var_type = "float" THEN {"float", "int", "bool"}
  ELSE IF var_type = "string" THEN {"str", "unicode"}
  ELSE {"bool", "int"}

\* var_type.maya_type of _types.
maya_type(var_type) ==
  IF var_type = "int" THEN "intValue"
  ELSE IF var_type = "float" THEN "floatValue"
  ELSE IF var_type = "string" THEN "stringValue"
  ELSE "intValue"

isinstance(value, expected_class) == value.cls \in expected_class

\* bool(value) of a number.
bool(value) == PyValue("bool", IF value.v = 0 THEN 0 ELSE 1)

\* What the host stores under a name: nothing, or a value of the kind of the
\* flag that stored it (an array is what other code may have stored).
Missing == [kind |-> "missing", v |-> 0]

Stored(kind, v) == [kind |-> kind, v |-> v]

StoredValues ==
  {Stored("intValue", n) : n \in {0, 1, 2}}
    \cup {Stored("floatValue", n) : n \in {0, 1, 2, 4}}
    \cup {Stored("stringValue", n) : n \in {0, 1}}
    \cup {Stored("array", 0)}

\* pm.optionVar(exists=name)
optionVar_exists(store, name) == store[name] # Missing

\* pm.optionVar(q=name): an int, a float, a unicode string or a list.
optionVar_q(store, name) ==
  LET stored == store[name]
  IN IF stored.kind = "intValue" THEN PyValue("int", stored.v)
     ELSE IF stored.kind = "floatValue" THEN PyValue("float", stored.v)
     ELSE IF stored.kind = "stringValue" THEN PyValue("unicode", stored.v)
     ELSE PyValue("list", 0)

\* pm.optionVar(intValue=(name, value)) and the like: the value is converted
\* to the kind of the flag and replaces whatever was stored.
optionVar_set(store, kind, name, value) ==
  [store EXCEPT ![name] =
     IF kind = "floatValue" THEN Stored(kind, halves(value))
     ELSE Stored(kind, value.v)]

\* pm.optionVar(remove=name)
optionVar_remove(store, name) == [store EXCEPT ![name] = Missing]

\* Lines 82-83 without the cast.
cast_not(var_type, value) == value

\* Lines 82-83: for bool, cast to bool.
cast(var_type, value) == IF var_type = "bool" THEN bool(value) ELSE value

\* The value property, lines 68-85.
value_get(store, option, name) ==
  IF ~optionVar_exists(store, name) THEN option.default
  ELSE LET value == optionVar_q(store, name)
       IN IF ~isinstance(value, expected_type(option.var_type)) THEN option.default
          ELSE cast(option.var_type, value)

\* The state an OptionVar operation works on: the host's store, the number of
\* times the on_change callbacks were called, and whether it raised.
Prefs == [store |-> optionVar, on_change |-> 0, raised |-> FALSE]

\* _call_on_change, lines 52-59: the callbacks' exceptions are logged.
call_on_change(o) == [o EXCEPT !.on_change = @ + 1]

\* The value setter, lines 87-101; the assert raises AssertionError.
value_set(o, option, name, value) ==
  LET old_value == value_get(o.store, option, name)
  IN IF ~isinstance(value, expected_type(option.var_type))
     THEN [o EXCEPT !.raised = TRUE]
     ELSE LET o1 == [o EXCEPT !.store =
                       optionVar_set(@, maya_type(option.var_type), name, value)]
          IN IF ~py_eq(value, old_value) THEN call_on_change(o1) ELSE o1

\* OptionVar.reset with the callbacks called but the var left in place.
reset_keeping(o, name) == call_on_change(o)

\* OptionVar.reset, lines 43-50.
reset(o, name) ==
  call_on_change([o EXCEPT !.store = optionVar_remove(@, name)])

\* The names of the option vars an OptionVars object holds.
Names == 1..NumOptionVars

\* The default an OptionVar of each type is declared with.
default_of(var_type) ==
  IF var_type = "int" THEN PyValue("int", 1)
  ELSE IF var_type = "float" THEN PyValue("float", 1)
  ELSE IF var_type = "string" THEN PyValue("str", 1)
  ELSE PyValue("bool", 1)

\* OptionVar(name, var_type, default)
OptionVar(var_type) == [var_type |-> var_type, default |-> default_of(var_type)]

RECURSIVE reset_options(_, _)
\* OptionVars.reset, lines 127-129.
reset_options(o, keys) ==
  IF keys = {} THEN o
  ELSE LET name == CHOOSE n \in keys : \A m \in keys : n <= m
       IN reset_options(reset(o, name), keys \ {name})

\* What is recorded of an OptionVar operation: its name and arguments, what
\* was stored under the name and which names were stored when it was called,
\* how often it called the on_change callbacks and whether it raised.
OptCall(op, name, value, o) ==
  [op |-> op, name |-> name, value |-> value,
   stored |-> IF name = None THEN Missing ELSE optionVar[name],
   had |-> {n \in Names : optionVar_exists(optionVar, n)},
   on_change |-> o.on_change, raised |-> o.raised]

OptIdle ==
  [op |-> "idle", name |-> None, value |-> PyValue("int", 0), stored |-> Missing,
   had |-> {}, on_change |-> 0, raised |-> FALSE]

\* No option var is stored.
NoOptions ==
  /\ optionVar = [n \in Names |-> Missing]
  /\ options = [n \in Names |-> OptionVar("int")]
  /\ optLast = OptIdle

------------------------------------------------------------------------------
\* maya_helpers.TimeChangeListener

Times == 1..MaxTime

\* The id the host gives to a new script job or callback.
new_id(ids) ==
  CHOOSE n \in 1..(Cardinality(ids) + 1) :
    n \notin ids /\ \A m \in 1..(n - 1) : m \in ids

\* The listener and what the host holds for it; called counts the calls of
\* the user callback.
Listener ==
  [playing_back_job |-> playing_back_job,
   playback_callback_id |-> playback_callback_id,
   jobs |-> jobs, callbacks |-> callbacks, time_seen |-> time_seen, called |-> 0]

\* _enable_time_listener with the flag taken the other way round.
enable_time_listener_unless_pausing(pause, is_playing) ==
  IF pause THEN TRUE ELSE ~is_playing

\* _enable_time_listener, lines 392-396.
enable_time_listener(pause, is_playing) ==
  IF ~pause THEN TRUE ELSE ~is_playing

\* self.callback(): the user callback looks at the scene time.
callback(t, now) == [t EXCEPT !.called = @ + 1, !.time_seen = now]

\* _register_time_changed_listener, lines 378-382.
register_time_changed_listener(t) ==
  IF t.playback_callback_id # None THEN t
  ELSE LET id == new_id(t.callbacks)
       IN [t EXCEPT !.callbacks = @ \cup {id}, !.playback_callback_id = id]

\* _unregister_time_changed_listener, lines 384-390.
unregister_time_changed_listener(t) ==
  IF t.playback_callback_id = None THEN t
  ELSE [t EXCEPT !.callbacks = @ \ {t.playback_callback_id},
                 !.playback_callback_id = None]

\* register() without the test of line 353.
register_job_again(t, pause, is_playing) ==
  LET job == new_id(t.jobs)
      t1 == [t EXCEPT !.jobs = @ \cup {job}, !.playing_back_job = job]
  IN IF enable_time_listener(pause, is_playing) /\ t1.playback_callback_id = None
     THEN register_time_changed_listener(t1)
     ELSE t1

\* register(), lines 346-357.
register(t, pause, is_playing) ==
  LET job == new_id(t.jobs)
      t1 == IF t.playing_back_job = None
            THEN [t EXCEPT !.jobs = @ \cup {job}, !.playing_back_job = job]
            ELSE t
  IN IF enable_time_listener(pause, is_playing) /\ t1.playback_callback_id = None
     THEN register_time_changed_listener(t1)
     ELSE t1

\* unregister(), lines 359-364.
unregister(t) ==
  LET t1 == IF t.playing_back_job # None
            THEN [t EXCEPT !.jobs = @ \ {t.playing_back_job}, !.playing_back_job = None]
            ELSE t
  IN unregister_time_changed_listener(t1)

\* _time_changed calling the callback whatever the playback state.
time_changed_always(t, pause, is_playing, now) == callback(t, now)

\* _time_changed, lines 366-376.
time_changed(t, pause, is_playing, now) ==
  IF ~enable_time_listener(pause, is_playing)
  THEN unregister_time_changed_listener(t)
  ELSE callback(t, now)

\* _playback_stopped, lines 398-409.
playback_stopped(t, pause, is_playing, now) ==
  IF ~enable_time_listener(pause, is_playing)
  THEN unregister_time_changed_listener(t)
  ELSE callback(register_time_changed_listener(t), now)

\* What is recorded of an operation or event: its name, whether playback was
\* running, what was registered when it began, and how often it called the
\* user callback.
TimeCall(op, t) ==
  [op |-> op, playing |-> playing,
   had_job |-> playing_back_job # None,
   had_callback |-> playback_callback_id # None,
   called |-> t.called]

TimeIdle ==
  [op |-> "idle", playing |-> FALSE, had_job |-> FALSE, had_callback |-> FALSE,
   called |-> 0]

\* A listener that is not registered.
NoTimeListener ==
  /\ playing_back_job = None
  /\ playback_callback_id = None
  /\ time = 1
  /\ jobs = {}
  /\ callbacks = {}
  /\ time_seen = None
  /\ timeLast = TimeIdle

------------------------------------------------------------------------------
\* ControllerEditor.populate_tree.  The selection and the expanded state of
\* the items (lines 477-478, 513-518) are left out: they decide nothing of
\* which items are created.

\* The tree widget and the locals of a run of populate_tree.
Tree ==
  [currently_refreshing |-> currently_refreshing, items |-> items,
   seen_nodes |-> seen_nodes, frames |-> frames, roots |-> roots,
   warnings |-> warnings]

\* Qt.QTreeWidgetItem(parent); parent is None for the tree widget itself.
new_tree_item(node, parent) == [controller_node |-> node, parent |-> parent]

\* Lines 474-486: the tree is cleared and the roots are found.
populate_begin(w, ch, nodes) ==
  [w EXCEPT !.currently_refreshing = TRUE,
            !.items = <<>>,
            !.seen_nodes = {},
            !.frames = <<>>,
            !.roots = SetToSeq({c \in nodes : parent_plugs(ch, c) = {}}),
            !.warnings = <<>>]

\* add_controllers_recursively without the test of lines 491-493.
add_controllers_again(w, ch, node, parent) ==
  [w EXCEPT !.seen_nodes = @ \cup {node},
            !.items = Append(@, new_tree_item(node, parent)),
            !.frames = Append(@, [node |-> node,
                                  children |-> get_controller_children(ch, node)])]

\* add_controllers_recursively(node, parent) up to its loop, lines 487-521.
add_controllers_recursively(w, ch, node, parent) ==
  IF node \in w.seen_nodes
  THEN [w EXCEPT !.warnings = Append(@, node)]
  ELSE [w EXCEPT !.seen_nodes = @ \cup {node},
                 !.items = Append(@, new_tree_item(node, parent)),
                 !.frames = Append(@, [node |-> node,
                                       children |-> get_controller_children(ch, node)])]

\* Lines 525-526: the next root is added.
add_root(w, ch) ==
  add_controllers_recursively([w EXCEPT !.roots = Tail(@)], ch, Head(w.roots), None)

\* Lines 522-523: the next child of the innermost call is added.
add_child(w, ch) ==
  LET top == w.frames[Len(w.frames)]
  IN add_controllers_recursively(
       [w EXCEPT !.frames[Len(w.frames)].children = Tail(@)],
       ch, Head(top.children), top.node)

\* The loop of lines 522-523 ends and the innermost call returns.
end_children(w) == [w EXCEPT !.frames = SubSeq(@, 1, Len(@) - 1)]

\* Line 528.
populate_end(w) == [w EXCEPT !.currently_refreshing = FALSE]

\* One step of a run of populate_tree.
populate_step(w, ch) ==
  IF w.frames # <<>>
  THEN IF w.frames[Len(w.frames)].children # <<>> THEN add_child(w, ch)
       ELSE end_children(w)
  ELSE IF w.roots # <<>> THEN add_root(w, ch)
  ELSE populate_end(w)

RECURSIVE populate_run(_, _)
\* The steps of a run up to its end (each step's result is computed before
\* the next step is taken from it).
populate_run(w, ch) ==
  IF ~w.currently_refreshing THEN w
  ELSE CHOOSE done \in {populate_run(next, ch) : next \in {populate_step(w, ch)}} : TRUE

\* populate_tree as the one call the change callback makes.
populate_tree(w, ch, nodes) == populate_run(populate_begin(w, ch, nodes), ch)

\* The tree of a new editor before populate_tree has run.
NoTree ==
  /\ currently_refreshing = FALSE
  /\ items = <<>>
  /\ seen_nodes = {}
  /\ frames = <<>>
  /\ roots = <<>>
  /\ warnings = <<>>

------------------------------------------------------------------------------
\* ControllerListener, and the ControllerEditor that owns it.

\* The controllers of the listener specification.
Watched == 1..MaxWatched

\* A host callback: the event it was added for and, for the callbacks added
\* on one node, the node.
Callback(event, node) == [event |-> event, node |-> node]

\* The listener, the queue of run_async_once, the tree its change callback
\* fills, and ran: how often the change callback was called.
ListenerState ==
  [registered |-> registered, callback_ids |-> callback_ids, queue |-> queue,
   tree |-> Tree, ran |-> 0]

\* qt_helpers.run_async_once(func): func is queued to be run from the event
\* loop, unless it is queued already.
run_async_once(l, func) ==
  IF list_contains(l.queue, func) THEN l
  ELSE [l EXCEPT !.queue = Append(@, func)]

\* get_controller_object(controller), lines 26-32.
get_controller_object(objs, controller) == objs[controller]

\* ControllerListener.register, lines 179-195.
listener_register(l, nodes, objs) ==
  IF l.registered THEN l
  ELSE [l EXCEPT
          !.registered = TRUE,
          !.callback_ids =
             @ \cup {Callback("SelectionChanged", None),
                     Callback("NodeAdded", None),
                     Callback("NodeRemoved", None)}
               \cup {Callback("AttributeChanged", node) : node \in nodes}
               \cup {Callback("NameChanged", get_controller_object(objs, node)) :
                       node \in {n \in nodes : get_controller_object(objs, n) # None}}]

\* ControllerListener.unregister, lines 197-204.
listener_unregister(l) ==
  IF ~l.registered THEN l
  ELSE [l EXCEPT !.registered = FALSE, !.callback_ids = {}]

\* ControllerListener._reregister, lines 206-211.
reregister(l, nodes, objs) ==
  IF ~l.registered THEN l
  ELSE listener_register(listener_unregister(l), nodes, objs)

\* ControllerListener._run_change_callback, lines 228-230; the editor set
\* populate_tree as the change callback (line 259).
run_change_callback(l, ch, nodes) ==
  [l EXCEPT !.tree = populate_tree(@, ch, nodes), !.ran = @ + 1]

\* _attribute_changed running the change callback at once.
attribute_changed_now(l, msg, ch, nodes) ==
  IF msg \in {"kConnectionMade", "kConnectionBroken"}
  THEN run_change_callback(l, ch, nodes)
  ELSE l

\* ControllerListener._attribute_changed, lines 213-215.
attribute_changed(l, msg, ch, nodes) ==
  IF msg \in {"kConnectionMade", "kConnectionBroken"}
  THEN run_async_once(l, "_run_change_callback")
  ELSE l

\* _node_added without the queueing of _reregister.
node_added_unwatched(l) == run_async_once(l, "_run_change_callback")

\* ControllerListener._node_added, lines 217-219.
node_added(l) ==
  run_async_once(run_async_once(l, "_reregister"), "_run_change_callback")

\* ControllerListener._node_removed, lines 221-223.
node_removed(l) ==
  run_async_once(run_async_once(l, "_reregister"), "_run_change_callback")

\* ControllerListener._node_renamed, lines 225-226.
node_renamed(l) == run_async_once(l, "_run_change_callback")

\* The function the event loop runs.
run_queued(l, func, ch, nodes, objs) ==
  IF func = "_reregister" THEN reregister(l, nodes, objs)
  ELSE run_change_callback(l, ch, nodes)

\* ControllerEditor._check_listeners, lines 244-250.
check_listeners(l, is_shown, nodes, objs) ==
  IF ~is_shown THEN listener_unregister(l)
  ELSE listener_register(l, nodes, objs)

\* What is recorded of a listener event: its name, the node it is about,
\* whether the host held a callback for it, how many notifications were
\* waiting for the change callback and how often it called the change callback.
ListenerCall(op, node, delivered, l) ==
  [op |-> op, node |-> node, delivered |-> delivered, waiting |-> notified,
   ran |-> l.ran]

ListenerIdle ==
  [op |-> "idle", node |-> None, delivered |-> FALSE, waiting |-> 0, ran |-> 0]

\* ControllerListener.__init__ and the editor before it is shown.
NoListener ==
  /\ registered = FALSE
  /\ callback_ids = {}
  /\ queue = <<>>
  /\ shown = FALSE
  /\ notified = 0
  /\ listLast = ListenerIdle

\* The state of what a specification leaves alone.
InitRest ==
  /\ NoOptions
  /\ NoTimeListener
  /\ pause_during_playback = TRUE
  /\ playing = FALSE
  /\ NoTree
  /\ NoListener

------------------------------------------------------------------------------
\* The scene as one record, and back.

Scene ==
  [children |-> children, prepopulate |-> prepopulate, exists |-> exists,
   controllerObject |-> controllerObject, undoChunks |-> undoChunks, raised |-> FALSE]

Becomes(s) ==
  /\ children' = s.children
  /\ prepopulate' = s.prepopulate
  /\ exists' = s.exists
  /\ controllerObject' = s.controllerObject
  /\ undoChunks' = s.undoChunks
  /\ UNCHANGED <<blockVars, restVars>>

\* The connected elements of the array are its elements 0..n-1.
Contiguous(arr) ==
  \A i \in Indices : arr[i] # None => \A j \in 0..(i - 1) : arr[j] # None

\* What is recorded of a handler's run: its name and arguments, whether it
\* ended by an exception, and of the scene it was called on: the parent the
\* controller had, whether a children array it was to repair had a gap, and
\* how many controllers it created.
Call(op, controller, parent, after, position, nodes, s) ==
  [op |-> op, controller |-> controller, parent |-> parent, after |-> after,
   position |-> position, nodes |-> nodes,
   old_parent |-> get_controller_parent(children, controller),
   had_gap |-> \E c \in Controllers :
                 controller \in {c, None} /\ ~Contiguous(children[c]),
   created |-> Cardinality(s.exists) - Cardinality(exists),
   raised |-> s.raised]

Idle ==
  [op |-> "idle", controller |-> None, parent |-> None, after |-> None,
   position |-> "", nodes |-> <<>>, old_parent |-> None, had_gap |-> FALSE,
   created |-> 0, raised |-> FALSE]

\* What is recorded of the block that was left last.
NoBlock ==
  [kind |-> "", by_exception |-> FALSE, depth |-> 0, restored |-> <<>>]

\* No block is being run.
InitBlocks ==
  /\ undoState = TRUE
  /\ autoKeyframe = FALSE
  /\ attr = 1
  /\ stack = <<>>
  /\ exc = FALSE
  /\ popped = NoBlock

------------------------------------------------------------------------------
\* Handlers of the tree specification.

SetControllerParent ==
  /\ last = Idle
  /\ \E c \in exists, p \in exists \cup {None}, a \in exists \cup {None} :
       LET s == set_controller_parent(Scene, c, p, a)
       IN /\ Becomes(s)
          /\ last' = Call("set_controller_parent", c, p, a, "", <<>>, s)

DraggedInternally ==
  /\ last = Idle
  /\ \E source \in exists, target \in exists \cup {None}, pos \in Positions :
       LET s == dragged_controller(Scene, source, target, pos)
       IN /\ Becomes(s)
          /\ last' = Call("dragged_internally", source, target, None, pos, <<>>, s)

\* The handler returns to the event loop.
Return ==
  /\ last # Idle
  /\ last' = Idle
  /\ UNCHANGED <<children, prepopulate, exists, controllerObject, undoChunks>>
  /\ UNCHANGED <<blockVars, restVars>>

NoChildren == [p \in Controllers |-> [i \in Indices |-> None]]

\* A scene of root controllers.
InitTree ==
  /\ children = NoChildren
  /\ prepopulate = [c \in Controllers |-> None]
  /\ exists = Controllers
  /\ controllerObject = [c \in Controllers |-> None]
  /\ undoChunks = 0
  /\ last = Idle
  /\ InitBlocks
  /\ InitRest

NextTree == SetControllerParent \/ DraggedInternally \/ Return

SpecTree == InitTree /\ [][NextTree]_vars

------------------------------------------------------------------------------
\* The gap-removal specification: scenes whose children arrays may have
\* unconnected elements anywhere, as earlier versions and deleted controllers
\* leave them.

Plugs == Controllers \X Indices

\* The scene in which controller c is connected to the element at[c].
ChildrenAt(at) ==
  [p \in Controllers |->
     [i \in Indices |->
        IF \E c \in Controllers : at[c] = <<p, i>>
        THEN CHOOSE c \in Controllers : at[c] = <<p, i>>
        ELSE None]]

InitGaps ==
  /\ \E at \in [Controllers -> Plugs \cup {NoPlug}] :
       /\ \A c, d \in Controllers : (c # d /\ at[c] = at[d]) => at[c] = NoPlug
       /\ children = ChildrenAt(at)
       /\ prepopulate = [c \in Controllers |-> at[c][1]]
  /\ exists = Controllers
  /\ controllerObject = [c \in Controllers |-> None]
  /\ undoChunks = 0
  /\ last = Idle
  /\ InitBlocks
  /\ InitRest

RemoveGapsInChildList ==
  /\ last = Idle
  /\ \E c \in exists :
       LET s == remove_gaps_in_child_list(Scene, c)
       IN /\ Becomes(s)
          /\ last' = Call("remove_gaps_in_child_list", c, None, None, "", <<>>, s)

RemoveGapsInAllControllers ==
  /\ last = Idle
  /\ \E referenced \in SUBSET exists :
       LET s == remove_gaps_in_all_controllers(Scene, referenced)
       IN /\ Becomes(s)
          /\ last' = Call("remove_gaps_in_all_controllers", None, None, None, "",
                          SetToSeq(referenced), s)

NextGaps == RemoveGapsInChildList \/ RemoveGapsInAllControllers \/ Return

SpecGaps == InitGaps /\ [][NextGaps]_vars

------------------------------------------------------------------------------
\* The editor specification: controllers are created for objects and for
\* groups, and objects are dropped from the scene onto the tree.

NodeLists == UNION {[1..n -> Objects] : n \in 1..MaxNodes}

\* What pm.ls(sl=True, type='transform') can return: distinct objects.
Selections ==
  {<<>>} \cup {nodes \in NodeLists : \A j, k \in 1..Len(nodes) : nodes[j] = nodes[k] => j = k}

\* The scene has room for the controllers a call on `nodes` may create.
Room(nodes) ==
  Cardinality({k \in 1..Len(nodes) :
                 nodes[k] = None \/ get_controller_for_object(Scene, nodes[k]) = None})
    <= Cardinality(Controllers \ exists)

InitEditor ==
  /\ children = NoChildren
  /\ prepopulate = [c \in Controllers |-> None]
  /\ exists = {}
  /\ controllerObject = [c \in Controllers |-> None]
  /\ undoChunks = 0
  /\ last = Idle
  /\ InitBlocks
  /\ InitRest

CreateControllerForSelectedObject ==
  /\ last = Idle
  /\ \E nodes \in Selections :
       /\ Room(nodes)
       /\ LET s == create_controller_for_selected_object(Scene, nodes)
          IN /\ Becomes(s)
             /\ last' = Call("create_controller_for_selected_object",
                             None, None, None, "", nodes, s)

CreateControllerGroup ==
  /\ last = Idle
  /\ Room(<<None>>)
  /\ LET s == create_controller_group(Scene)
     IN /\ Becomes(s)
        /\ last' = Call("create_controller_group", None, None, None, "", <<None>>, s)

DraggedFromMaya ==
  /\ last = Idle
  /\ \E nodes \in NodeLists, target \in exists \cup {None}, pos \in Positions :
       /\ Room(nodes)
       /\ LET s == dragged_from_maya(Scene, nodes, target, pos)
          IN /\ Becomes(s)
             /\ last' = Call("dragged_from_maya", None, target, None, pos, nodes, s)

NextEditor ==
  \/ CreateControllerForSelectedObject
  \/ CreateControllerGroup
  \/ DraggedFromMaya
  \/ Return

SpecEditor == InitEditor /\ [][NextEditor]_vars

------------------------------------------------------------------------------
\* The with blocks of maya_helpers.py: without_undo, disable_auto_keyframe and
\* restores.  A block is entered, its body runs (other blocks, appends to the
\* list restores() yields) and it is left normally or by an exception; either
\* way its finally clause runs.

Values == 1..NumValues

\* The host state the blocks read and write.
Host == [undoState |-> undoState, autoKeyframe |-> autoKeyframe, attr |-> attr,
         restored |-> <<>>]

\* A block being run: its kind and its locals (original_auto_keyframe of
\* disable_auto_keyframe, the list of restores), and the auto-keyframe state
\* found when it was entered.
Frame(kind, h) ==
  [kind |-> kind,
   original_auto_keyframe |-> FALSE,
   restores |-> <<>>,
   entered_auto_keyframe |-> h.autoKeyframe]

\* without_undo, line 498.
without_undo_enter(h) == [h EXCEPT !.undoState = FALSE]

\* without_undo, line 502.
without_undo_exit(h) == [h EXCEPT !.undoState = TRUE]

\* disable_auto_keyframe, line 509.
original_auto_keyframe_of(h) == h.autoKeyframe

\* disable_auto_keyframe, line 511.
disable_auto_keyframe_enter(h) == [h EXCEPT !.autoKeyframe = FALSE]

\* Line 514 switching auto-keyframe on, as without_undo does with undo.
disable_auto_keyframe_exit_enabling(h, frame) == [h EXCEPT !.autoKeyframe = TRUE]

\* disable_auto_keyframe, line 514.
disable_auto_keyframe_exit(h, frame) ==
  [h EXCEPT !.autoKeyframe = frame.original_auto_keyframe]

\* SetAndRestore(value): old_value = get(), and set(value) unless value is None.
\* The item is known by its place in the list it is appended to.
new_item(h, id, value) == [id |-> id, old_value |-> h.attr]

set_value(h, value) == IF value = None THEN h ELSE [h EXCEPT !.attr = value]

\* SetAndRestore.restore(): set(old_value); h.restored lists the calls.
restore(h, item) ==
  [h EXCEPT !.attr = item.old_value, !.restored = Append(@, item.id)]

RECURSIVE restore_in_order(_, _)
\* Lines 814-815 without reversed().
restore_in_order(h, restores) ==
  IF restores = <<>> THEN h
  ELSE restore_in_order(restore(h, Head(restores)), Tail(restores))

RECURSIVE restore_reversed(_, _)
\* Lines 814-815: for restore in reversed(restores): restore.restore()
restore_reversed(h, restores) ==
  IF restores = <<>> THEN h
  ELSE restore_reversed(restore(h, restores[Len(restores)]),
                        SubSeq(restores, 1, Len(restores) - 1))

\* The code before the yield of each block.
enter_block(kind, h) ==
  IF kind = "without_undo"
  THEN [h |-> without_undo_enter(h), frame |-> Frame(kind, h)]
  ELSE IF kind = "disable_auto_keyframe"
  THEN [h |-> disable_auto_keyframe_enter(h),
        frame |-> [Frame(kind, h) EXCEPT
                     !.original_auto_keyframe = original_auto_keyframe_of(h)]]
  ELSE [h |-> h, frame |-> Frame(kind, h)]

\* The finally clause of each block.
exit_block(frame, h) ==
  IF frame.kind = "without_undo" THEN without_undo_exit(h)
  ELSE IF frame.kind = "disable_auto_keyframe" THEN disable_auto_keyframe_exit(h, frame)
  ELSE restore_reversed(h, frame.restores)

HostBecomes(h) ==
  /\ undoState' = h.undoState
  /\ autoKeyframe' = h.autoKeyframe
  /\ attr' = h.attr

Top == stack[Len(stack)]

depth_of(kind) == Cardinality({k \in 1..Len(stack) : stack[k].kind = kind})

Enter(kind) ==
  /\ ~exc
  /\ Len(stack) < MaxDepth
  /\ kind = "restores" => depth_of("restores") < MaxRestoresDepth
  /\ LET e == enter_block(kind, Host)
     IN /\ HostBecomes(e.h)
        /\ stack' = Append(stack, e.frame)
  /\ UNCHANGED <<exc, popped, sceneVars, restVars>>

EnterWithoutUndo == Enter("without_undo")

EnterDisableAutoKeyframe == Enter("disable_auto_keyframe")

EnterRestores == Enter("restores")

\* restores.append(SetAndRestore(value)) in the body of a restores block.
AppendRestore ==
  /\ ~exc
  /\ stack # <<>>
  /\ Top.kind = "restores"
  /\ Len(Top.restores) < MaxItems
  /\ \E value \in Values \cup {None} :
       LET item == new_item(Host, Len(Top.restores) + 1, value)
       IN /\ HostBecomes(set_value(Host, value))
          /\ stack' = [stack EXCEPT ![Len(stack)].restores = Append(@, item)]
  /\ UNCHANGED <<exc, popped, sceneVars, restVars>>

\* The innermost block is left and its finally clause runs.
Leave(by_exception) ==
  /\ stack # <<>>
  /\ LET h == exit_block(Top, Host)
     IN /\ HostBecomes(h)
        /\ popped' = [kind |-> Top.kind, by_exception |-> by_exception,
                      depth |-> Len(stack), restored |-> h.restored]
  /\ stack' = SubSeq(stack, 1, Len(stack) - 1)
  /\ UNCHANGED <<exc, sceneVars, restVars>>

\* The body of the innermost block ends.
ExitBlock == ~exc /\ Leave(FALSE)

\* The body of the innermost block raises.
RaiseInBlock ==
  /\ ~exc
  /\ stack # <<>>
  /\ exc' = TRUE
  /\ UNCHANGED <<undoState, autoKeyframe, attr, stack, popped, sceneVars, restVars>>

\* The exception leaves the innermost block.
Unwind == exc /\ Leave(TRUE)

\* The exception has left every block and is reported.
Reported ==
  /\ exc
  /\ stack = <<>>
  /\ exc' = FALSE
  /\ UNCHANGED <<undoState, autoKeyframe, attr, stack, popped, sceneVars, restVars>>

InitScene ==
  /\ children = NoChildren
  /\ prepopulate = [c \in Controllers |-> None]
  /\ exists = {}
  /\ controllerObject = [c \in Controllers |-> None]
  /\ undoChunks = 0
  /\ last = Idle

\* Blocks that switch undo and auto-keyframe off, one inside another.
InitSwitches ==
  /\ InitScene
  /\ undoState \in BOOLEAN
  /\ autoKeyframe \in BOOLEAN
  /\ attr = 1
  /\ stack = <<>>
  /\ exc = FALSE
  /\ popped = NoBlock
  /\ InitRest

NextSwitches ==
  \/ EnterWithoutUndo
  \/ EnterDisableAutoKeyframe
  \/ ExitBlock
  \/ RaiseInBlock
  \/ Unwind
  \/ Reported

SpecSwitches == InitSwitches /\ [][NextSwitches]_vars

\* Blocks that restore the changes made in them.
InitRestores ==
  /\ InitScene
  /\ undoState = TRUE
  /\ autoKeyframe = FALSE
  /\ attr \in Values
  /\ stack = <<>>
  /\ exc = FALSE
  /\ popped = NoBlock
  /\ InitRest

NextRestores ==
  \/ EnterRestores
  \/ AppendRestore
  \/ ExitBlock
  \/ RaiseInBlock
  \/ Unwind
  \/ Reported

SpecRestores == InitRestores /\ [][NextRestores]_vars

------------------------------------------------------------------------------
\* The option var specification: values are set and option vars are reset,
\* whatever the host had stored under their names.

PrefsBecome(o) ==
  /\ optionVar' = o.store
  /\ UNCHANGED <<options, sceneVars, blockVars, timeVars, treeVars, listenerVars>>

\* var.value = value
SetValue ==
  /\ optLast = OptIdle
  /\ \E name \in Names, value \in PyValues :
       LET o == value_set(Prefs, options[name], name, value)
       IN /\ PrefsBecome(o)
          /\ optLast' = OptCall("set", name, value, o)

\* var.reset()
Reset ==
  /\ optLast = OptIdle
  /\ \E name \in Names :
       LET o == reset(Prefs, name)
       IN /\ PrefsBecome(o)
          /\ optLast' = OptCall("reset", name, PyValue("int", 0), o)

\* OptionVars.reset()
ResetOptions ==
  /\ optLast = OptIdle
  /\ LET o == reset_options(Prefs, Names)
     IN /\ PrefsBecome(o)
        /\ optLast' = OptCall("reset_options", None, PyValue("int", 0), o)

\* The operation returns to its caller.
OptReturn ==
  /\ optLast # OptIdle
  /\ optLast' = OptIdle
  /\ UNCHANGED <<optionVar, options, sceneVars, blockVars, timeVars, treeVars, listenerVars>>

InitOptions ==
  /\ InitScene
  /\ InitBlocks
  /\ optionVar \in [Names -> StoredValues \cup {Missing}]
  /\ options \in [Names -> {OptionVar(var_type) : var_type \in Types}]
  /\ optLast = OptIdle
  /\ NoTimeListener
  /\ pause_during_playback = TRUE
  /\ playing = FALSE
  /\ NoTree
  /\ NoListener

NextOptions == SetValue \/ Reset \/ ResetOptions \/ OptReturn

SpecOptions == InitOptions /\ [][NextOptions]_vars

------------------------------------------------------------------------------
\* The time listener specification: a TimeChangeListener is registered and
\* unregistered while the host starts and stops playback, changes the scene
\* time and runs the playingBack script job.

ListenerBecomes(t) ==
  /\ playing_back_job' = t.playing_back_job
  /\ playback_callback_id' = t.playback_callback_id
  /\ jobs' = t.jobs
  /\ callbacks' = t.callbacks
  /\ time_seen' = t.time_seen
  /\ UNCHANGED <<pause_during_playback, sceneVars, blockVars, prefVars, treeVars, listenerVars>>

Register ==
  LET t == register(Listener, pause_during_playback, playing)
  IN /\ ListenerBecomes(t)
     /\ timeLast' = TimeCall("register", t)
     /\ UNCHANGED <<playing, time>>

Unregister ==
  LET t == unregister(Listener)
  IN /\ ListenerBecomes(t)
     /\ timeLast' = TimeCall("unregister", t)
     /\ UNCHANGED <<playing, time>>

\* The scene time changes, by playback or by scrubbing, and the host calls
\* the timeChanged callback it holds.
TimeChanged ==
  \E now \in Times \ {time} :
    LET t == IF callbacks = {} THEN Listener
             ELSE time_changed(Listener, pause_during_playback, playing, now)
    IN /\ time' = now
       /\ ListenerBecomes(t)
       /\ timeLast' = TimeCall("time_changed", t)
       /\ UNCHANGED playing

\* The host runs the playingBack script job.
PlayingBackJob ==
  /\ jobs # {}
  /\ LET t == playback_stopped(Listener, pause_during_playback, playing, time)
     IN /\ ListenerBecomes(t)
        /\ timeLast' = TimeCall("playback_stopped", t)
  /\ UNCHANGED <<playing, time>>

StartPlayback ==
  /\ ~playing
  /\ playing' = TRUE
  /\ timeLast' = TimeCall("play", Listener)
  /\ UNCHANGED <<playing_back_job, playback_callback_id, pause_during_playback,
                 time, jobs, callbacks, time_seen, sceneVars, blockVars, prefVars, treeVars, listenerVars>>

StopPlayback ==
  /\ playing
  /\ playing' = FALSE
  /\ timeLast' = TimeCall("stop", Listener)
  /\ UNCHANGED <<playing_back_job, playback_callback_id, pause_during_playback,
                 time, jobs, callbacks, time_seen, sceneVars, blockVars, prefVars, treeVars, listenerVars>>

\* TimeChangeListener(callback, pause_during_playback)
InitTime ==
  /\ InitScene
  /\ InitBlocks
  /\ NoOptions
  /\ NoTree
  /\ NoListener
  /\ NoTimeListener
  /\ pause_during_playback \in BOOLEAN
  /\ playing \in BOOLEAN

NextTime ==
  \/ Register
  \/ Unregister
  \/ TimeChanged
  \/ PlayingBackJob
  \/ StartPlayback
  \/ StopPlayback

SpecTime == InitTime /\ [][NextTime]_vars

------------------------------------------------------------------------------
\* The populate specification: populate_tree runs, one call or return of
\* add_controllers_recursively at a time, on any connections that scripts or
\* earlier versions may have left: a controller may be connected to several
\* elements, of one parent or of several, and in a cycle.

Edges == Controllers \X Controllers

EdgeLists == UNION {[1..n -> Edges] : n \in 0..MaxConnections}

RECURSIVE connect_edges(_, _)
\* child.parent.connect(parent.children[idx]) for each <<parent, child>>, at the
\* next free index of the parent.
connect_edges(ch, edges) ==
  IF edges = <<>> THEN ch
  ELSE LET parent == Head(edges)[1]
           child == Head(edges)[2]
           list == get_controller_children(ch, parent)
       IN connect_edges(assign_controller_children(ch, parent, Append(list, child)),
                        Tail(edges))

TreeBecomes(w) ==
  /\ currently_refreshing' = w.currently_refreshing
  /\ items' = w.items
  /\ seen_nodes' = w.seen_nodes
  /\ frames' = w.frames
  /\ roots' = w.roots
  /\ warnings' = w.warnings
  /\ UNCHANGED <<sceneVars, blockVars, prefVars, timeVars, listenerVars>>

PopulateTree ==
  /\ ~currently_refreshing
  /\ TreeBecomes(populate_begin(Tree, children, exists))

AddRoot ==
  /\ currently_refreshing
  /\ frames = <<>>
  /\ roots # <<>>
  /\ TreeBecomes(populate_step(Tree, children))

AddChild ==
  /\ currently_refreshing
  /\ frames # <<>>
  /\ frames[Len(frames)].children # <<>>
  /\ TreeBecomes(populate_step(Tree, children))

EndChildren ==
  /\ currently_refreshing
  /\ frames # <<>>
  /\ frames[Len(frames)].children = <<>>
  /\ TreeBecomes(populate_step(Tree, children))

EndPopulate ==
  /\ currently_refreshing
  /\ frames = <<>>
  /\ roots = <<>>
  /\ TreeBecomes(populate_step(Tree, children))

InitPopulate ==
  /\ \E edges \in EdgeLists : children = connect_edges(NoChildren, edges)
  /\ prepopulate = [c \in Controllers |-> None]
  /\ exists = Controllers
  /\ controllerObject = [c \in Controllers |-> None]
  /\ undoChunks = 0
  /\ last = Idle
  /\ InitBlocks
  /\ NoOptions
  /\ NoTimeListener
  /\ pause_during_playback = TRUE
  /\ playing = FALSE
  /\ NoTree
  /\ NoListener

\* A step of the run of populate_tree.
PopulateStep == AddRoot \/ AddChild \/ EndChildren \/ EndPopulate

NextPopulate == PopulateTree \/ AddRoot \/ AddChild \/ EndChildren \/ EndPopulate

\* populate_tree is sequential code: while it is running, it takes its next
\* step.
SpecPopulate == InitPopulate /\ [][NextPopulate]_vars /\ WF_vars(PopulateStep)

------------------------------------------------------------------------------
\* The listener specification: the editor is shown and hidden, controllers are
\* created and deleted, their connections change and their objects are
\* renamed; the host calls the callbacks the listener added, and the event
\* loop runs what run_async_once queued.  The result of each call is drawn
\* from the set that holds it, so that it is computed once.

QueuedFunctions == {"_reregister", "_run_change_callback"}

\* pm.delete of a controller without children.
delete_node(s, controller) ==
  [s EXCEPT !.exists = @ \ {controller},
            !.controllerObject[controller] = None]

ListenerStateBecomes(l) ==
  /\ registered' = l.registered
  /\ callback_ids' = l.callback_ids
  /\ queue' = l.queue
  /\ currently_refreshing' = l.tree.currently_refreshing
  /\ items' = l.tree.items
  /\ seen_nodes' = l.tree.seen_nodes
  /\ frames' = l.tree.frames
  /\ roots' = l.tree.roots
  /\ warnings' = l.tree.warnings
  /\ UNCHANGED <<blockVars, prefVars, timeVars, last>>

SceneUnchanged ==
  UNCHANGED <<children, prepopulate, exists, controllerObject, undoChunks>>

SceneBecomes(s) ==
  /\ children' = s.children
  /\ prepopulate' = s.prepopulate
  /\ exists' = s.exists
  /\ controllerObject' = s.controllerObject
  /\ undoChunks' = s.undoChunks

\* The host holds a callback of the listener for the event.
Held(event, node) == Callback(event, node) \in callback_ids

\* showEvent, lines 543-552.
ShowEvent ==
  /\ ~shown
  /\ shown' = TRUE
  /\ \E l \in {check_listeners(ListenerState, TRUE, exists, controllerObject)} :
       /\ ListenerStateBecomes(l)
       /\ listLast' = ListenerCall("showEvent", None, FALSE, l)
  /\ SceneUnchanged
  /\ UNCHANGED notified

\* hideEvent, lines 554-561.
HideEvent ==
  /\ shown
  /\ shown' = FALSE
  /\ \E l \in {check_listeners(ListenerState, FALSE, exists, controllerObject)} :
       /\ ListenerStateBecomes(l)
       /\ listLast' = ListenerCall("hideEvent", None, FALSE, l)
  /\ SceneUnchanged
  /\ UNCHANGED notified

\* create_controller_for_objects([node]) creates a controller: the host calls
\* the node added callback, and the handler fills the tree itself (line 399).
CreateController ==
  /\ Cardinality(exists) < MaxWatched
  /\ \E node \in Objects \cup {None} :
       /\ node # None => get_controller_for_object(Scene, node) = None
       /\ \E delivered \in {Held("NodeAdded", None)},
             s \in {create_controller_for_objects(Scene, <<node>>)} :
            \E l1 \in {IF delivered THEN node_added(ListenerState) ELSE ListenerState} :
              \E l \in {[l1 EXCEPT !.tree = populate_tree(@, s.children, s.exists)]} :
                /\ delivered => notified < MaxNotifications
                /\ SceneBecomes(s)
                /\ ListenerStateBecomes(l)
                /\ notified' = IF delivered THEN notified + 1 ELSE notified
                /\ listLast' = ListenerCall("node_added",
                                            CHOOSE c \in s.exists : c \notin exists,
                                            delivered, l)
  /\ UNCHANGED shown

\* A controller is deleted and the host calls the node removed callback.
DeleteController ==
  /\ \E controller \in exists :
       \E delivered \in {Held("NodeRemoved", None)},
          s \in {delete_node(Scene, controller)} :
         \E l \in {IF delivered THEN node_removed(ListenerState) ELSE ListenerState} :
           /\ delivered => notified < MaxNotifications
           /\ SceneBecomes(s)
           /\ ListenerStateBecomes(l)
           /\ notified' = IF delivered THEN notified + 1 ELSE notified
           /\ listLast' = ListenerCall("node_removed", controller, delivered, l)
  /\ UNCHANGED shown

\* An object is connected to a controller, or the controller's object is
\* disconnected, and the host calls the controller's attribute changed callback.
ConnectionChanged ==
  /\ \E controller \in exists, node \in Objects :
       \E made \in {controllerObject[controller] = None},
          delivered \in {Held("AttributeChanged", controller)} :
         \E l \in {IF delivered
                   THEN attribute_changed(
                          ListenerState,
                          IF made THEN "kConnectionMade" ELSE "kConnectionBroken",
                          children, exists)
                   ELSE ListenerState} :
           /\ made => get_controller_for_object(Scene, node) = None
           /\ ~made => controllerObject[controller] = node
           /\ delivered => notified < MaxNotifications
           /\ controllerObject' =
                [controllerObject EXCEPT ![controller] = IF made THEN node ELSE None]
           /\ UNCHANGED <<children, prepopulate, exists, undoChunks>>
           /\ ListenerStateBecomes(l)
           /\ notified' = IF delivered THEN notified + 1 ELSE notified
           /\ listLast' = ListenerCall("attribute_changed", controller, delivered, l)
  /\ UNCHANGED shown

\* An attribute of a controller is set: an attribute change that is no
\* connection.
AttributeSet ==
  /\ \E controller \in exists :
       \E delivered \in {Held("AttributeChanged", controller)} :
         \E l \in {IF delivered
                   THEN attribute_changed(ListenerState, "kAttributeSet", children, exists)
                   ELSE ListenerState} :
           /\ ListenerStateBecomes(l)
           /\ listLast' = ListenerCall("attribute_set", controller, delivered, l)
  /\ SceneUnchanged
  /\ UNCHANGED <<shown, notified>>

\* A controller's object is renamed.
Renamed ==
  /\ \E controller \in exists :
       \E node \in {controllerObject[controller]} :
         \E delivered \in {Held("NameChanged", node)} :
           \E l \in {IF delivered THEN node_renamed(ListenerState) ELSE ListenerState} :
             /\ node # None
             /\ delivered => notified < MaxNotifications
             /\ ListenerStateBecomes(l)
             /\ notified' = IF delivered THEN notified + 1 ELSE notified
             /\ listLast' = ListenerCall("node_renamed", controller, delivered, l)
  /\ SceneUnchanged
  /\ UNCHANGED shown

\* The event loop runs a queued function.
RunQueued(func) ==
  /\ list_contains(queue, func)
  /\ \E l0 \in {[ListenerState EXCEPT !.queue = list_remove(@, func)]} :
       \E l \in {run_queued(l0, func, children, exists, controllerObject)} :
         /\ ListenerStateBecomes(l)
         /\ listLast' = ListenerCall(func, None, TRUE, l)
  /\ notified' = IF func = "_run_change_callback" THEN 0 ELSE notified
  /\ SceneUnchanged
  /\ UNCHANGED shown

InitListener ==
  /\ InitScene
  /\ InitBlocks
  /\ NoOptions
  /\ NoTimeListener
  /\ pause_during_playback = TRUE
  /\ playing = FALSE
  /\ NoTree
  /\ NoListener

NextListener ==
  \/ ShowEvent
  \/ HideEvent
  \/ CreateController
  \/ DeleteController
  \/ ConnectionChanged
  \/ AttributeSet
  \/ Renamed
  \/ \E func \in QueuedFunctions : RunQueued(func)

\* The event loop runs every function that stays queued.
SpecListener ==
  /\ InitListener
  /\ [][NextListener]_vars
  /\ \A func \in QueuedFunctions : WF_vars(RunQueued(func))

------------------------------------------------------------------------------
\* Properties of the controller hierarchy.

child_list(ch, p) == get_controller_children(ch, p)

\* A list without every occurrence of x.
Without(list, x) == SelectSeq(list, LAMBDA y : y # x)

\* set_controller_parent(c, p, after) has just run.
SetParentRan == last.op = "set_controller_parent"

\* C1: after set_controller_parent(c, p) with p not None, from a state in
\* which c has at most one parent, c's parent is p, c is connected to exactly
\* one element of p's children array and to no element of another
\* controller's array.
C1_ParentIsSet ==
  [][(/\ last'.op = "set_controller_parent"
      /\ last'.parent # None
      /\ Cardinality(parent_plugs(children, last'.controller)) <= 1)
     => LET c == last'.controller
            p == last'.parent
        IN /\ get_controller_parent(children', c) = p
           /\ Cardinality(parent_plugs(children', c)) = 1
           /\ \A pl \in parent_plugs(children', c) : pl[1] = p
           /\ Len(Without(child_list(children', p), c)) + 1 = Len(child_list(children', p))
    ]_vars

\* A controller was set under the parent it already had, among other children.
C1_Witness ==
  /\ SetParentRan
  /\ last.parent # None
  /\ last.old_parent = last.parent
  /\ Len(child_list(children, last.parent)) >= 2
  /\ get_controller_parent(children, last.controller) = last.parent

\* C2: starting from a scene whose children arrays are all connected exactly
\* at indices 0..n-1, every children array stays connected exactly at
\* 0..n-1 whatever set_controller_parent calls and drops are made.
C2_ChildListsContiguous == \A p \in Controllers : Contiguous(children[p])

\* A controller was taken out of a parent that keeps other children.
C2_Witness ==
  /\ SetParentRan
  /\ last.old_parent # None
  /\ last.old_parent # last.parent
  /\ Len(child_list(children, last.old_parent)) >= 1
  /\ get_controller_parent(children, last.controller) = last.parent

\* set_controller_parent(c, None) or a drop of c on the viewport has just run.
MadeRoot(l) ==
  \/ l.op = "set_controller_parent" /\ l.parent = None
  \/ l.op = "dragged_internally" /\ l.position = "OnViewport"

\* C4: set_controller_parent(c, None), and a drop of c on the empty viewport,
\* leave c without a parent and in no child list, and every child list is
\* what it was without c (so the former parent's other children keep their
\* order).
C4_Unparented ==
  [][MadeRoot(last')
     => LET c == last'.controller
        IN /\ parent_plugs(children', c) = {}
           /\ get_controller_parent(children', c) = None
           /\ \A p \in Controllers :
                child_list(children', p) = Without(child_list(children, p), c)
    ]_vars

\* A controller with a parent was made a root and its former parent keeps
\* at least two children.
C4_Witness ==
  /\ MadeRoot(last)
  /\ last.old_parent # None
  /\ Len(child_list(children, last.old_parent)) >= 2
  /\ get_controller_parent(children, last.controller) = None

\* C5: set_controller_parent(c, p, after) puts c first in p's child list when
\* after is None or is not among p's children once c is taken out of them,
\* and right after `after` otherwise; p's other children keep their order.
C5_InsertedAfter ==
  [][(last'.op = "set_controller_parent" /\ last'.parent # None)
     => LET c == last'.controller
            p == last'.parent
            after == last'.after
            others == Without(child_list(children, p), c)
            new == child_list(children', p)
        IN /\ Without(new, c) = others
           /\ Len(new) = Len(others) + 1
           /\ IF after = None \/ ~list_contains(others, after)
              THEN new[1] = c
              ELSE \E k \in 1..(Len(new) - 1) : new[k] = after /\ new[k + 1] = c
    ]_vars

\* A controller was placed after a sibling that is not the last child.
C5_Witness ==
  /\ SetParentRan
  /\ last.parent # None
  /\ last.after # None
  /\ LET new == child_list(children, last.parent)
     IN /\ Len(new) >= 3
        /\ new[1] = last.after
        /\ new[2] = last.controller

\* The controllers a gap-removal run l was to repair.
Repaired(l, c) ==
  \/ l.op = "remove_gaps_in_child_list" /\ l.controller = c
  \/ l.op = "remove_gaps_in_all_controllers" /\ ~list_contains(l.nodes, c)

\* C3: after _remove_gaps_in_child_list(controller), also when it is run by
\* remove_gaps_in_all_controllers on a controller that is not referenced, the
\* controller's connected children are at indices 0..n-1 of its array and
\* they are the children it had, in the order it had them.
C3_GapsRemoved ==
  [][\A c \in Controllers :
       Repaired(last', c)
       => /\ Contiguous(children'[c])
          /\ child_list(children', c) = child_list(children, c)
    ]_vars

\* A children array with a gap below two connected children was repaired.
C3_Witness ==
  /\ last.op = "remove_gaps_in_child_list"
  /\ last.had_gap
  /\ Len(child_list(children, last.controller)) >= 2
  /\ Contiguous(children[last.controller])

\* The controllers connected to an object.
controllers_of(o) == {c \in exists : controllerObject[c] = o}

\* C6: whatever create_controller_for_objects calls are made (by the create
\* buttons and by drops from the scene), every object has at most one
\* controller connected to it.
C6_OneControllerPerObject ==
  \A o \in Objects : Cardinality(controllers_of(o)) <= 1

\* An object without a controller was dropped twice in one call and got one
\* controller.
C6_Witness ==
  /\ last.op = "dragged_from_maya"
  /\ Len(last.nodes) = 2
  /\ last.nodes[1] = last.nodes[2]
  /\ last.created = 1
  /\ Cardinality(controllers_of(last.nodes[1])) = 1

\* C7: every handler leaves the number of open undo chunks as it found it:
\* each undo() block closes its chunk once, on normal completion, on an early
\* return and on an exception, also when one block runs inside another.
C7_UndoChunksClosed == [][undoChunks' = undoChunks]_vars

\* A drop from the scene ended by an exception inside its undo block, in a
\* scene where an earlier drop re-parented a controller (set_controller_parent's
\* undo block inside dragged_from_maya's).
C7_Witness ==
  /\ last.op = "dragged_from_maya"
  /\ last.raised
  /\ \E c \in exists :
       controllerObject[c] # None /\ get_controller_parent(children, c) # None
  /\ undoChunks = 0

------------------------------------------------------------------------------
\* Properties of the with blocks.

\* A block of this kind is being run.
Inside(st, kind) == \E k \in 1..Len(st) : st[k].kind = kind

\* The step leaves a block of this kind.
Leaves(kind) ==
  /\ stack # <<>>
  /\ Top.kind = kind
  /\ stack' = SubSeq(stack, 1, Len(stack) - 1)

\* C8: inside a without_undo block undo recording is disabled at every
\* point, and it is enabled once the block is left, also when the block
\* raises and also for a without_undo block inside another.
C8_UndoDisabledInside ==
  [][/\ Inside(stack', "without_undo") => ~undoState'
     /\ Leaves("without_undo") => undoState'
    ]_vars

C10_AutoKeyframeRestored ==
  [][/\ Inside(stack', "disable_auto_keyframe") => ~autoKeyframe'
     /\ Leaves("disable_auto_keyframe")
        => autoKeyframe' = Top.entered_auto_keyframe
    ]_vars

\* With auto-keyframe on, a disable_auto_keyframe block inside another was
\* left by an exception and the outer block is still being run.
C10_Witness ==
  /\ popped.kind = "disable_auto_keyframe"
  /\ popped.by_exception
  /\ popped.depth = 2
  /\ Len(stack) = 1
  /\ stack[1].kind = "disable_auto_keyframe"
  /\ stack[1].entered_auto_keyframe
  /\ ~autoKeyframe

------------------------------------------------------------------------------
\* Properties of the option vars.

\* What a read of the value of option var `name` returns.
value_of(store, name) == value_get(store, options[name], name)

\* C11: for every type of OptionVar and every value v of the type's accepted
\* class, the assignment var.value = v does not raise and a read of var.value
\* after it returns v, bool(v) for type bool, whatever the host had stored
\* under the name.
C11_ValueReadBack ==
  [][(/\ optLast'.op = "set"
      /\ isinstance(optLast'.value, expected_type(options[optLast'.name].var_type)))
     => LET name == optLast'.name
            v == optLast'.value
            read == value_of(optionVar', name)
        IN /\ ~optLast'.raised
           /\ IF options[name].var_type = "bool"
              THEN read = bool(v)
              ELSE py_eq(read, v)
    ]_vars

\* A bool option var whose name held a string was set to the int 2 and
\* reads True.
C11_Witness ==
  /\ optLast.op = "set"
  /\ options[optLast.name].var_type = "bool"
  /\ optLast.value = PyValue("int", 2)
  /\ optLast.stored.kind = "stringValue"
  /\ value_of(optionVar, optLast.name) = PyValue("bool", 1)

\* The option vars an operation was to reset.
WasReset(l, name) ==
  \/ l.op = "reset" /\ l.name = name
  \/ l.op = "reset_options"

\* C12: after OptionVar.reset(), and after OptionVars.reset() for every var
\* it holds, the host stores nothing under the var's name and a read of its
\* value returns the default, whatever was stored.
C12_ResetToDefault ==
  [][\A name \in Names :
       WasReset(optLast', name)
       => /\ ~optionVar_exists(optionVar', name)
          /\ value_of(optionVar', name) = options[name].default
    ]_vars

\* OptionVars.reset() ran on vars of several types that were all stored.
C12_Witness ==
  /\ optLast.op = "reset_options"
  /\ optLast.had = Names
  /\ optLast.on_change = NumOptionVars
  /\ \A name \in Names : value_of(optionVar, name) = options[name].default
  /\ \E n, m \in Names : options[n].var_type # options[m].var_type

------------------------------------------------------------------------------
\* Properties of the time change listener.

\* The host called _time_changed: the time changed while it held the callback.
TimeChangeArrived(l) == l.op = "time_changed" /\ l.had_callback

\* C13: with pause_during_playback true, no operation or event that runs
\* while playback is running calls the user callback, and a time change that
\* arrives during playback unregisters the timeChanged callback.
C13_PausedDuringPlayback ==
  [][(pause_during_playback /\ timeLast'.playing)
     => /\ timeLast'.called = 0
        /\ time_seen' = time_seen
        /\ TimeChangeArrived(timeLast')
           => playback_callback_id' = None /\ callbacks' = {}
    ]_vars

\* A registered listener got a time change during playback and unregistered
\* its timeChanged callback; its script job stays.
C13_Witness ==
  /\ pause_during_playback
  /\ TimeChangeArrived(timeLast)
  /\ timeLast.playing
  /\ timeLast.called = 0
  /\ playback_callback_id = None
  /\ playing_back_job # None

C15_RegisteredOnce ==
  /\ Cardinality(jobs) <= 1
  /\ Cardinality(callbacks) <= 1
  /\ jobs = IF playing_back_job = None THEN {} ELSE {playing_back_job}
  /\ callbacks = IF playback_callback_id = None THEN {} ELSE {playback_callback_id}
  /\ timeLast.op = "unregister"
     => /\ playing_back_job = None
        /\ playback_callback_id = None
        /\ jobs = {}
        /\ callbacks = {}

\* register() was called on a listener that had its script job and its
\* callback registered.
C15_Witness ==
  /\ timeLast.op = "register"
  /\ timeLast.had_job
  /\ timeLast.had_callback
  /\ Cardinality(jobs) = 1
  /\ Cardinality(callbacks) = 1

------------------------------------------------------------------------------
\* Properties of drops on the tree.

RECURSIVE ancestors(_, _, _)
\* The controllers reached from c by following parents at most n times.
ancestors(ch, c, n) ==
  LET p == get_controller_parent(ch, c)
  IN IF n = 0 \/ p = None THEN {}
     ELSE {p} \cup ancestors(ch, p, n - 1)

\* C17: starting from a forest, whatever set_controller_parent calls and
\* drops are made, no controller is its own parent or its own ancestor.
C17_NoCycles ==
  \A c \in Controllers : c \notin ancestors(children, c, MaxControllers)

\* A controller was dropped above another controller that has a parent.
DroppedAbove(l, ch) ==
  /\ l.op = "dragged_internally"
  /\ l.position = "AboveItem"
  /\ l.parent # None
  /\ l.parent # l.controller
  /\ get_controller_parent(ch, l.parent) # None

\* C18: a drop of a source above a target that has a parent makes the source
\* a child of the target's parent, immediately before the target in that
\* parent's child list, also when the source was a sibling of the target.
C18_DroppedBeforeTarget ==
  [][DroppedAbove(last', children)
     => LET source == last'.controller
            target == last'.parent
            target_parent == get_controller_parent(children, target)
            new == child_list(children', target_parent)
        IN /\ get_controller_parent(children', source) = target_parent
           /\ \E k \in 1..(Len(new) - 1) : new[k] = source /\ new[k + 1] = target
    ]_vars

------------------------------------------------------------------------------
\* Properties of populate_tree.

\* The number of tree items of a controller.
item_count(c) == Cardinality({k \in 1..Len(items) : items[k].controller_node = c})

\* C19: populate_tree ends on every connection graph, cycles included, and
\* the tree never holds more than one item of a controller: a controller that
\* is reached again is skipped with a warning, and only such a controller is.
C19_PopulateTerminates ==
  /\ [](\A c \in Controllers :
          /\ item_count(c) <= 1
          /\ item_count(c) = 1 <=> c \in seen_nodes
          /\ (\E k \in 1..Len(warnings) : warnings[k] = c) => c \in seen_nodes)
  /\ (currently_refreshing ~> ~currently_refreshing)

\* populate_tree has ended on a graph in which a controller under a root is
\* its own child: it has one item and one warning.
C19_Witness ==
  /\ ~currently_refreshing
  /\ \E c \in Controllers :
       /\ list_contains(get_controller_children(children, c), c)
       /\ item_count(c) = 1
       /\ warnings = <<c>>
       /\ Len(items) >= 2

------------------------------------------------------------------------------
\* Properties of the controller listener.

\* How often the change callback is queued.
pending(q) == Len(SelectSeq(q, LAMBDA func : func = "_run_change_callback"))

\* The notifications of a change of the controllers.
ChangeNotifications ==
  {"attribute_changed", "node_added", "node_removed", "node_renamed"}

\* C16: the change callback is never queued twice and no notification runs
\* it; while notifications wait for it, it is queued once, and the event loop
\* then runs it once for all of them and leaves none waiting.
C16_RefreshCoalesced ==
  [][/\ pending(queue') <= 1
     /\ notified' > 0 => pending(queue') = 1
     /\ (listLast'.op \in ChangeNotifications /\ listLast'.delivered)
        => listLast'.ran = 0 /\ notified' = notified + 1
     /\ listLast'.op = "_run_change_callback"
        => /\ listLast'.ran = 1
           /\ pending(queue') = 0
           /\ notified' = 0
    ]_vars

\* The change callback has run once for three notifications.
C16_Witness ==
  /\ listLast.op = "_run_change_callback"
  /\ listLast.waiting >= 3
  /\ listLast.ran = 1
  /\ pending(queue) = 0
  /\ notified = 0

\* C20: once the host has told a registered listener that a controller was
\* added, the listener comes to hold an attribute changed callback on that
\* controller, unless it is unregistered or the controller deleted before; and
\* once that callback has told of a connection change, the change callback
\* comes to run.
C20_WatchedAfterAdd ==
  /\ \A c \in Controllers :
       (listLast.op = "node_added" /\ listLast.node = c /\ listLast.delivered)
         ~> (Held("AttributeChanged", c) \/ ~registered \/ c \notin exists)
  /\ (listLast.op = "attribute_changed" /\ listLast.delivered)
       ~> (listLast.op = "_run_change_callback")

\* A controller was added while the listener was registered: the listener
\* holds no attribute changed callback on it yet and _reregister is queued.
C20_Witness ==
  /\ listLast.op = "node_added"
  /\ listLast.delivered
  /\ registered
  /\ listLast.node \in exists
  /\ ~Held("AttributeChanged", listLast.node)
  /\ list_contains(queue, "_reregister")

====
